---- MODULE Spec2Model ----
(***************************************************************************)
(* A model of the analysis core of Git-MCP:                                *)
(*   - the skeleton fold pass     (src/src/analysis.rs, process_tree_sitter)*)
(*   - the chunk extractor        (src/src/chunker.rs, extract_chunks)     *)
(*   - the semantic index rebuild (src/src/indexer.rs, index_repo, save)   *)
(*   - the skeleton cache         (src/src/analysis.rs, get_skeleton)      *)
(* Each part has its own specification (SpecFold, SpecChunk, SpecIndex,    *)
(* SpecCache); a part that a specification does not run keeps its          *)
(* variables at their idle values.                                         *)
(***************************************************************************)
EXTENDS Integers, Sequences, FiniteSets, TLC

VARIABLES
    \* ---- process_tree_sitter (analysis.rs:114-167)
    captures,     \* the capture ranges in the order the query cursor delivered them
    ranges,       \* the local `ranges` vector (sorted once the sort has run)
    foldPc,       \* "sort" | "loop" | "done" | "idle"
    foldI,        \* position of the for loop in `ranges`
    result,       \* the local `result` string
    last_pos,     \* the local `last_pos` cursor
    applied       \* history: the ranges the loop replaced, in order

foldVars == <<captures, ranges, foldPc, foldI, result, last_pos, applied>>

VARIABLES
    \* ---- Chunker::extract_chunks (chunker.rs:53-113)
    file,         \* the parsed file: the children of the root node, in source order
    delivery,     \* the captured nodes in the order the query cursor delivers them
    chunkPc,      \* "loop" | "done" | "idle"
    chunkI,       \* position of the capture loop in `delivery`
    seen_ranges,  \* the local `seen_ranges` set
    chunks,       \* the local `chunks` vector
    visited       \* history: what was computed for each capture that was not a duplicate

chunkVars == <<file, delivery, chunkPc, chunkI, seen_ranges, chunks, visited>>

VARIABLES
    \* ---- SemanticIndexer (indexer.rs:17-98)
    index,        \* self.index: the in-memory index, a sequence of IndexedDoc
    disk,         \* the file at self.cache_path (embeddings.json)
    ixPc,         \* "idle" | "scan" | "done": where index_repo stands
    files,        \* the local `files`: the paths `git ls-files` listed
    parts,        \* per listed file, what its flat_map closure returned (or Pending)
    reads,        \* history: per listed file, whether read_file succeeded
    passed,       \* history: per listed file, whether its content reached Chunker::chunk
    doneOrder,    \* history: the order in which the closures finished
    built,        \* the local `chunks` of index_repo, once collected
    embeddings,   \* the local `embeddings`, once the backend answered
    outcome,      \* history: how the last index_repo call ended
    saved,        \* history: what the write in save() did
    startIndex,   \* history: self.index when the last index_repo call began
    startDisk,    \* history: the persisted file when the last index_repo call began
    rebuilds      \* number of index_repo calls so far

indexVars == <<index, disk, ixPc, files, parts, reads, passed, doneOrder, built,
               embeddings, outcome, saved, startIndex, startDisk, rebuilds>>

VARIABLES
    \* ---- AnalysisEngine::get_skeleton (analysis.rs:18-38)
    cache,        \* the files <hash>.skel of the cache directory: key -> text
    returns,      \* history: what each finished get_skeleton call returned
    calls         \* number of get_skeleton calls so far

cacheVars == <<cache, returns, calls>>

VARIABLES
    \* ---- SemanticIndexer::search (indexer.rs:100-127)
    answer        \* what the last search call returned; forgotten when the
                  \* index is rebuilt or loaded again

searchVars == <<answer>>

VARIABLES
    \* ---- concurrent get_skeleton calls (analysis.rs:29-37)
    callers       \* per call: where it stands and the text it returned

raceVars == <<callers>>

VARIABLES
    \* ---- the two extension tables (analysis.rs:46-111, chunker.rs:20-48)
    lookup        \* a path and the grammar each consumer resolved for it

registryVars == <<lookup>>

vars == <<foldVars, chunkVars, indexVars, cacheVars, searchVars, raceVars, registryVars>>

\* What each part leaves alone.
notFold == <<chunkVars, indexVars, cacheVars, searchVars, raceVars, registryVars>>

notChunk == <<foldVars, indexVars, cacheVars, searchVars, raceVars, registryVars>>

notIndex == <<foldVars, chunkVars, cacheVars, searchVars, raceVars, registryVars>>

notCache == <<foldVars, chunkVars, indexVars, searchVars, raceVars, registryVars>>

notSearch == <<foldVars, chunkVars, indexVars, cacheVars, raceVars, registryVars>>

notRace == <<foldVars, chunkVars, indexVars, searchVars, registryVars>>

notRegistry == <<foldVars, chunkVars, indexVars, cacheVars, searchVars, raceVars>>

----------------------------------------------------------------------------
(* Generic helpers.                                                        *)

Range(s) == {s[i] : i \in 1..Len(s)}

SeqsUpTo(S, n) == UNION {[1..k -> S] : k \in 0..n}

Min2(a, b) == IF a < b THEN a ELSE b

----------------------------------------------------------------------------
(* The skeleton fold pass.                                                 *)

\* Length in bytes of the content that is folded.
FoldLen == 4

\* Largest number of captures the query cursor delivers in one pass.
MaxCaptures == 3

\* The content: FoldLen distinct bytes, so that the result shows what was kept.
FoldContent == [i \in 1..FoldLen |-> i]

\* The placeholder text, one token that is no byte of the content.
Replacement == <<0>>

\* A capture is (start_byte, end_byte) of a syntax node: a non-empty byte range.
NodeRanges == {r \in (0..FoldLen) \X (0..FoldLen) : r[1] < r[2]}

Contains(outer, inner) == outer[1] <= inner[1] /\ inner[2] <= outer[2]

Disjoint(a, b) == a[2] <= b[1] \/ b[2] <= a[1]

\* Nodes of one syntax tree are pairwise nested or disjoint.
TreeShaped(s) ==
    \A i, j \in 1..Len(s) :
        Contains(s[i], s[j]) \/ Contains(s[j], s[i]) \/ Disjoint(s[i], s[j])

\* content[a..b] of Rust: the bytes at offsets a .. b-1.
Slice(content, a, b) == SubSeq(content, a + 1, b)

\* Insert r into the sorted sequence s after every element whose start is
\* not greater: the stable order of Vec::sort_by on the start offset.
RECURSIVE InsertByStart(_, _)
InsertByStart(s, r) ==
    IF s = <<>> THEN <<r>>
    ELSE IF s[Len(s)][1] <= r[1] THEN Append(s, r)
    ELSE Append(InsertByStart(SubSeq(s, 1, Len(s) - 1), r), s[Len(s)])

RECURSIVE SortByStart(_)
SortByStart(s) ==
    IF s = <<>> THEN <<>>
    ELSE InsertByStart(SortByStart(SubSeq(s, 1, Len(s) - 1)), s[Len(s)])

FoldIdle ==
    /\ captures = <<>>
    /\ ranges = <<>>
    /\ foldPc = "idle"
    /\ foldI = 0
    /\ result = <<>>
    /\ last_pos = 0
    /\ applied = <<>>

\* The state after the matches were collected into `ranges` (lines 130-139).
FoldInit ==
    /\ captures \in {s \in SeqsUpTo(NodeRanges, MaxCaptures) : TreeShaped(s)}
    /\ ranges = captures
    /\ foldPc = "sort"
    /\ foldI = 1
    /\ result = <<>>
    /\ last_pos = 0
    /\ applied = <<>>

\* ranges.sort_by(|a, b| a.0.cmp(&b.0))
FoldSort ==
    /\ foldPc = "sort"
    /\ ranges' = SortByStart(ranges)
    /\ foldPc' = "loop"
    /\ UNCHANGED <<captures, foldI, result, last_pos, applied>>
    /\ UNCHANGED notFold

FoldOne_NoSkip(content, replacement, st, r) ==
    [result |-> st.result \o Slice(content, st.last_pos, r[1]) \o replacement,
     last_pos |-> r[2],
     applied |-> Append(st.applied, r)]

\* The body of `for (start, end) in ranges` for the range r, on the locals
\* st = [result, last_pos, applied].
FoldOne(content, replacement, st, r) ==
    LET start == r[1]
        end == r[2]
    IN  IF start < st.last_pos
        THEN st
        ELSE [result |-> st.result \o Slice(content, st.last_pos, start) \o replacement,
              last_pos |-> end,
              applied |-> Append(st.applied, r)]

\* The lines after the loop: the result with the remaining code appended.
FoldTail(content, st) ==
    IF st.last_pos < Len(content)
    THEN st.result \o Slice(content, st.last_pos, Len(content))
    ELSE st.result

\* One iteration of `for (start, end) in ranges`.
FoldRange ==
    /\ foldPc = "loop"
    /\ foldI <= Len(ranges)
    /\ LET st == FoldOne(FoldContent, Replacement,
                         [result |-> result, last_pos |-> last_pos, applied |-> applied],
                         ranges[foldI])
       IN  /\ result' = st.result
           /\ last_pos' = st.last_pos
           /\ applied' = st.applied
    /\ foldI' = foldI + 1
    /\ UNCHANGED <<captures, ranges, foldPc>>
    /\ UNCHANGED notFold

\* After the loop: append the remaining code and return.
FoldFinish ==
    /\ foldPc = "loop"
    /\ foldI > Len(ranges)
    /\ result' = FoldTail(FoldContent,
                          [result |-> result, last_pos |-> last_pos, applied |-> applied])
    /\ foldPc' = "done"
    /\ UNCHANGED <<captures, ranges, foldI, last_pos, applied>>
    /\ UNCHANGED notFold

----------------------------------------------------------------------------
(* The chunk extractor.                                                    *)
(*                                                                         *)
(* The content of a file is kept run-length encoded: a sequence of runs    *)
(* <<character, count>>. A file is the sequence of the root node's         *)
(* children; each child is preceded by a gap of whitespace and spans a     *)
(* number of lines.                                                        *)

\* Largest number of children of the root node.
MaxItems == 3

\* Largest number of captured declarations among the children.
MaxDecls == 2

\* How many captures beyond one per declaration the cursor may deliver.
MaxRepeats == 1

\* The byte gap below which a preceding comment is attached.
DocGap == 50

\* A chunk is kept when end_line - start_line exceeds this.
MinLineDiff == 3

NL == "\n"

\* The grammar Chunker::chunk picks for an extension ("none": the file is
\* skipped).
ChunkerLanguage(ext) ==
    CASE ext = "rs" -> "rust"
      [] ext = "py" -> "python"
      [] ext \in {"js", "ts", "jsx", "tsx"} -> "javascript"
      [] ext = "go" -> "go"
      [] ext = "java" -> "java"
      [] ext \in {"cpp", "cc", "c", "h"} -> "cpp"
      [] OTHER -> "none"

\* The node kinds the item query of a grammar captures.
ItemQuery(lang) ==
    CASE lang = "rust" -> {"function_item", "impl_item", "struct_item"}
      [] lang = "python" -> {"function_definition", "class_definition"}
      [] lang = "javascript" ->
            {"function_declaration", "class_declaration", "method_definition"}
      [] lang = "go" -> {"function_declaration", "method_declaration"}
      [] lang = "java" -> {"method_declaration", "class_declaration"}
      [] lang = "cpp" -> {"function_definition", "class_specifier"}
      [] OTHER -> {}

\* The grammar extract_chunks is run with on its own.
ChunkLang == "rust"

NodeKinds == {"line_comment", "string", "attribute_item", "function_item"}

\* The first bytes of the text of a node.
Word == <<"x">>

\* p.kind().contains("comment") || p.kind() == "string", on the kinds above.
IsDocKind(kind) == kind \in {"line_comment", "block_comment", "comment"} \/ kind = "string"

\* The whitespace before a child: `bytes` bytes, holding one line break when
\* not empty; the line break comes last (the child starts its line) or first
\* (the child is indented).
GapBytes == {0, 10, DocGap, 1000}

Gaps == {g \in [bytes : GapBytes, indent : BOOLEAN] : g.indent => g.bytes = 10}

DeclLines == {3, 4, 5}

Items ==
    {it \in [kind : NodeKinds, gap : Gaps, lines : DeclLines \cup {1}, word : {Word}] :
        it.kind \in ItemQuery(ChunkLang) <=> it.lines \in DeclLines}

GapRuns(g) ==
    IF g.bytes = 0 THEN <<>>
    ELSE IF g.bytes = 1 THEN <<<<NL, 1>>>>
    ELSE IF g.indent THEN <<<<NL, 1>>, <<" ", g.bytes - 1>>>>
    ELSE <<<<" ", g.bytes - 1>>, <<NL, 1>>>>

\* The text of a node that spans k lines: its word on the first line, one
\* byte on each line after it.
RECURSIVE LineRuns(_)
LineRuns(k) ==
    IF k = 1 THEN <<>>
    ELSE LineRuns(k - 1) \o <<<<NL, 1>>, <<"x", 1>>>>

NodeRuns(it) == [i \in 1..Len(it.word) |-> <<it.word[i], 1>>] \o LineRuns(it.lines)

NodeBytes(it) == Len(it.word) + 2 * (it.lines - 1)

RECURSIVE ContentRuns(_)
ContentRuns(f) ==
    IF f = <<>> THEN <<>>
    ELSE ContentRuns(SubSeq(f, 1, Len(f) - 1))
            \o GapRuns(f[Len(f)].gap) \o NodeRuns(f[Len(f)])

\* node.end_byte() of child i.
RECURSIVE NodeEnd(_, _)
NodeEnd(f, i) ==
    IF i = 0 THEN 0
    ELSE NodeEnd(f, i - 1) + f[i].gap.bytes + NodeBytes(f[i])

\* node.start_byte() of child i.
NodeStart(f, i) == NodeEnd(f, i - 1) + f[i].gap.bytes

\* The first n bytes of a run-length encoded text: content[..n].
RECURSIVE Prefix(_, _)
Prefix(rs, n) ==
    IF n <= 0 \/ rs = <<>> THEN <<>>
    ELSE IF rs[1][2] >= n THEN <<<<rs[1][1], n>>>>
    ELSE <<rs[1]>> \o Prefix(Tail(rs), n - rs[1][2])

RECURSIVE CountChar(_, _)
CountChar(rs, c) ==
    IF rs = <<>> THEN 0
    ELSE (IF rs[1][1] = c THEN rs[1][2] ELSE 0) + CountChar(Tail(rs), c)

\* str::lines().count(): one line per line break, and one more for a last
\* line that no line break ends.
LinesCount(rs) ==
    CountChar(rs, NL) + (IF rs # <<>> /\ rs[Len(rs)][1] # NL THEN 1 ELSE 0)

\* The while loop over prev_sibling(): p is the sibling looked at (0: none),
\* start_byte the start accumulated so far.
RECURSIVE WalkBack(_, _, _)
WalkBack(f, p, start_byte) ==
    IF p = 0 THEN start_byte
    ELSE IF IsDocKind(f[p].kind)
    THEN IF NodeEnd(f, p) < start_byte /\ (start_byte - NodeEnd(f, p)) < DocGap
         THEN WalkBack(f, p - 1, NodeStart(f, p))
         ELSE start_byte
    ELSE start_byte

\* The CodeChunk the loop body computes for the captured child i. Its
\* content, the text content[start_byte..end_byte], is kept as the byte range.
Candidate(f, path, i) ==
    LET start_byte == WalkBack(f, i - 1, NodeStart(f, i))
        end_byte == NodeEnd(f, i)
    IN  [path |-> path,
         content |-> <<start_byte, end_byte>>,
         start_line |-> LinesCount(Prefix(ContentRuns(f), start_byte)),
         end_line |-> LinesCount(Prefix(ContentRuns(f), end_byte))]

\* if end_line - start_line > 3
Significant(c) == c.end_line - c.start_line > MinLineDiff

\* The body of the capture loop for the captured child `node`, on the locals
\* st = [seen_ranges, chunks, visited].
LoopBody(f, path, node, st) ==
    LET range == <<NodeStart(f, node), NodeEnd(f, node)>>
        c == Candidate(f, path, node)
    IN  IF range \in st.seen_ranges
        THEN st
        ELSE [seen_ranges |-> st.seen_ranges \cup {range},
              chunks |-> IF Significant(c) THEN Append(st.chunks, c) ELSE st.chunks,
              visited |-> Append(st.visited, [node |-> node, chunk |-> c])]

\* extract_chunks as a function: the loop run over the captures d.
RECURSIVE RunLoop(_, _, _)
RunLoop(f, path, d) ==
    IF d = <<>> THEN [seen_ranges |-> {}, chunks |-> <<>>, visited |-> <<>>]
    ELSE LoopBody(f, path, d[Len(d)], RunLoop(f, path, SubSeq(d, 1, Len(d) - 1)))

\* The children the item query of a grammar captures.
CapturedNodes(f, lang) == {i \in 1..Len(f) : f[i].kind \in ItemQuery(lang)}

DeclsOf(f) == CapturedNodes(f, ChunkLang)

\* The path extract_chunks is called with.
ChunkPath == <<"a", ".", "r", "s">>

\* The cursor delivers every captured node, in some order, a node possibly
\* more than once.
Deliveries(f) ==
    {d \in SeqsUpTo(DeclsOf(f), Cardinality(DeclsOf(f)) + MaxRepeats) :
        /\ Range(d) = DeclsOf(f)
        /\ Len(d) >= Cardinality(DeclsOf(f))}

ChunkIdle ==
    /\ file = <<>>
    /\ delivery = <<>>
    /\ chunkPc = "idle"
    /\ chunkI = 0
    /\ seen_ranges = {}
    /\ chunks = <<>>
    /\ visited = <<>>

\* The state after the file was parsed and the query was started (lines 54-67).
ChunkInit ==
    /\ file \in {f \in SeqsUpTo(Items, MaxItems) : Cardinality(DeclsOf(f)) <= MaxDecls}
    /\ delivery \in Deliveries(file)
    /\ chunkPc = "loop"
    /\ chunkI = 1
    /\ seen_ranges = {}
    /\ chunks = <<>>
    /\ visited = <<>>

\* One iteration of `for capture in m.captures`.
ChunkCapture ==
    /\ chunkPc = "loop"
    /\ chunkI <= Len(delivery)
    /\ LET st == LoopBody(file, ChunkPath, delivery[chunkI],
                           [seen_ranges |-> seen_ranges, chunks |-> chunks,
                            visited |-> visited])
       IN  /\ seen_ranges' = st.seen_ranges
           /\ chunks' = st.chunks
           /\ visited' = st.visited
    /\ chunkI' = chunkI + 1
    /\ UNCHANGED <<file, delivery, chunkPc>>
    /\ UNCHANGED notChunk

\* The loops are over: return `chunks`.
ChunkReturn ==
    /\ chunkPc = "loop"
    /\ chunkI > Len(delivery)
    /\ chunkPc' = "done"
    /\ UNCHANGED <<file, delivery, chunkI, seen_ranges, chunks, visited>>
    /\ UNCHANGED notChunk


----------------------------------------------------------------------------
(* The semantic index.                                                     *)

\* No search was made yet.
NoAnswer == [kind |-> "none"]

\* Largest number of paths `git ls-files` lists.
MaxFiles == 2

\* Largest number of index_repo calls.
MaxRebuilds == 2

\* The work tree: four files.
PathA == <<"a", ".", "r", "s">>

PathB == <<"b", ".", "p", "y">>

PathE == <<"e", ".", "p", "y">>

PathN == <<"n", ".", "t", "x", "t">>

Paths == {PathA, PathB, PathE, PathN}

Child(kind, bytes, lines, word) ==
    [kind |-> kind, gap |-> [bytes |-> bytes, indent |-> FALSE], lines |-> lines,
     word |-> word]

ErrorLit == <<"E", "r", "r", "o", "r">>

\* The parsed content of each file: a.rs holds two functions, b.py a comment
\* and a function, e.py an assignment to a name that begins with "Error" and
\* a function, n.txt text that no grammar is registered for.
Worktree(path) ==
    CASE path = PathA ->
            <<Child("function_item", 0, 4, Word), Child("function_item", 1, 5, Word)>>
      [] path = PathB ->
            <<Child("comment", 0, 1, Word), Child("function_definition", 1, 5, Word)>>
      [] path = PathE ->
            <<Child("expression_statement", 0, 1, ErrorLit \o <<"s">>),
              Child("function_definition", 1, 5, Word)>>
      [] OTHER -> <<Child("function_item", 0, 5, Word)>>

\* Path::extension() of a file name, as a string ("" when there is none).
RECURSIVE Join(_)
Join(chars) == IF chars = <<>> THEN "" ELSE chars[1] \o Join(Tail(chars))

LastDot(path) ==
    LET dots == {i \in 1..Len(path) : path[i] = "."}
    IN  IF dots = {} THEN 0 ELSE CHOOSE i \in dots : \A j \in dots : j <= i

Extension(path) ==
    IF LastDot(path) <= 1 THEN ""
    ELSE Join(SubSeq(path, LastDot(path) + 1, Len(path)))

\* The captured nodes in source order.
RECURSIVE Ascending(_)
Ascending(S) ==
    IF S = {} THEN <<>>
    ELSE LET m == CHOOSE x \in S : \A y \in S : y <= x
         IN  Append(Ascending(S \ {m}), m)

\* Chunker::chunk(content, path), f being the parse of content.
ChunkerChunk(f, path) ==
    LET lang == ChunkerLanguage(Extension(path))
    IN  IF lang = "none" THEN <<>>
        ELSE RunLoop(f, path, Ascending(CapturedNodes(f, lang))).chunks

\* A run-length encoded text, byte by byte.
RECURSIVE Expand(_)
Expand(rs) ==
    IF rs = <<>> THEN <<>>
    ELSE [i \in 1..rs[1][2] |-> rs[1][1]] \o Expand(Tail(rs))

\* str::starts_with
StartsWith(rs, chars) == Expand(Prefix(rs, Len(chars))) = chars

\* What GitEngine::read_file returns: the content, or the text of the error.
ReadError ==
    [i \in 1..13 |-> <<<<"E", "r", "r", "o", "r", " ", "r", "e", "a", "d", "i", "n", "g">>[i], 1>>]

ReadFile(path, ok) == IF ok THEN ContentRuns(Worktree(path)) ELSE ReadError

\* Whether the flat_map closure hands the content to Chunker::chunk.
Handed(full_content) == ~StartsWith(full_content, ErrorLit)

\* The flat_map closure of index_repo for one path.
FileChunks(path, ok) ==
    IF Handed(ReadFile(path, ok)) THEN ChunkerChunk(Worktree(path), path) ELSE <<>>

\* format!("File: {}\nLine: {}\n\n{}", c.path, c.start_line, c.content)
EmbedInput(c) == <<"File: ", c.path, "\nLine: ", c.start_line, "\n\n", c.content>>

\* The vector the embedding model computes for an input: the model maps the
\* inputs of a.rs to [1,0], those of b.py to [0,1], any other to [0,0].
EmbeddingOf(input) ==
    CASE input[2] = PathA -> <<1, 0>>
      [] input[2] = PathB -> <<0, 1>>
      [] OTHER -> <<0, 0>>

\* chunks.into_iter().zip(embeddings.into_iter()).map(...).collect()
Zip_Reversed(cs, es) ==
    [i \in 1..Min2(Len(cs), Len(es)) |->
        [path |-> cs[i].path, content |-> cs[i].content,
         start_line |-> cs[i].start_line,
         embedding |-> es[Min2(Len(cs), Len(es)) + 1 - i]]]

Zip(cs, es) ==
    [i \in 1..Min2(Len(cs), Len(es)) |->
        [path |-> cs[i].path, content |-> cs[i].content,
         start_line |-> cs[i].start_line, embedding |-> es[i]]]

Pending == "pending"

RECURSIVE Flatten(_)
Flatten(ss) ==
    IF ss = <<>> THEN <<>>
    ELSE Flatten(SubSeq(ss, 1, Len(ss) - 1)) \o ss[Len(ss)]

AllScanned == \A i \in 1..Len(files) : parts[i] # Pending

\* The fan-in of par_iter().flat_map(..).collect(): the closures' results in
\* the order of `files`.
Collected_ByCompletion == Flatten([k \in 1..Len(doneOrder) |-> parts[doneOrder[k]]])

Collected == Flatten([i \in 1..Len(files) |-> parts[i]])

\* The persisted file: absent, a serialized index, or bytes that do not parse.
Absent == [state |-> "absent", docs |-> <<>>]

Corrupt == [state |-> "corrupt", docs |-> <<>>]

Json(docs) == [state |-> "json", docs |-> docs]

\* SemanticIndexer::new: the index read from the persisted file.
Load(d) == IF d.state = "json" THEN d.docs ELSE <<>>

\* fs::write creates or truncates the file and then writes it: it succeeds,
\* or fails before the file is touched, or fails after the truncation.
WriteResults == {"written", "not_written", "truncated"}

AfterWrite(d, docs, w) ==
    CASE w = "written" -> Json(docs)
      [] w = "truncated" -> Corrupt
      [] OTHER -> d

\* The paths `git ls-files` can list: any paths of the work tree, in any order.
Listings == {l \in SeqsUpTo(Paths, MaxFiles) : \A i, j \in 1..Len(l) : i # j => l[i] # l[j]}

IndexIdle ==
    /\ index = <<>>
    /\ disk = Absent
    /\ ixPc = "off"
    /\ files = <<>>
    /\ parts = <<>>
    /\ reads = <<>>
    /\ passed = <<>>
    /\ doneOrder = <<>>
    /\ built = <<>>
    /\ embeddings = <<>>
    /\ outcome = "none"
    /\ saved = "none"
    /\ startIndex = <<>>
    /\ startDisk = Absent
    /\ rebuilds = 0

\* SemanticIndexer::new in a repository that has no cache yet.
IndexInit ==
    /\ index = <<>>
    /\ disk = Absent
    /\ ixPc = "idle"
    /\ files = <<>>
    /\ parts = <<>>
    /\ reads = <<>>
    /\ passed = <<>>
    /\ doneOrder = <<>>
    /\ built = <<>>
    /\ embeddings = <<>>
    /\ outcome = "none"
    /\ saved = "none"
    /\ startIndex = <<>>
    /\ startDisk = Absent
    /\ rebuilds = 0

\* SemanticIndexer::new again (the process restarts): the index is read back.
Restart ==
    /\ ixPc = "idle"
    /\ index' = Load(disk)
    /\ files' = <<>>
    /\ parts' = <<>>
    /\ reads' = <<>>
    /\ passed' = <<>>
    /\ doneOrder' = <<>>
    /\ built' = <<>>
    /\ embeddings' = <<>>
    /\ outcome' = "none"
    /\ saved' = "none"
    /\ startIndex' = <<>>
    /\ startDisk' = Absent
    /\ answer' = NoAnswer
    /\ UNCHANGED <<disk, ixPc, rebuilds>>
    /\ UNCHANGED <<foldVars, chunkVars, cacheVars, raceVars, registryVars>>

\* index_repo, lines 49-56: list the files; return when there are none.
IndexRepoStart ==
    /\ ixPc = "idle"
    /\ rebuilds < MaxRebuilds
    /\ rebuilds' = rebuilds + 1
    /\ \E l \in Listings :
        /\ files' = l
        /\ parts' = [i \in 1..Len(l) |-> Pending]
        /\ reads' = [i \in 1..Len(l) |-> Pending]
        /\ passed' = [i \in 1..Len(l) |-> FALSE]
        /\ ixPc' = IF l = <<>> THEN "done" ELSE "scan"
        /\ outcome' = IF l = <<>> THEN "no_files" ELSE "running"
    /\ doneOrder' = <<>>
    /\ built' = <<>>
    /\ embeddings' = <<>>
    /\ saved' = "none"
    /\ startIndex' = index
    /\ startDisk' = disk
    /\ answer' = NoAnswer
    /\ UNCHANGED <<index, disk>>
    /\ UNCHANGED <<foldVars, chunkVars, cacheVars, raceVars, registryVars>>

\* One run of the flat_map closure, on any file not yet processed: the
\* worker pool runs the closures in any order.
ScanFile ==
    /\ ixPc = "scan"
    /\ \E i \in 1..Len(files) : \E ok \in BOOLEAN :
        /\ parts[i] = Pending
        /\ parts' = [parts EXCEPT ![i] = FileChunks(files[i], ok)]
        /\ reads' = [reads EXCEPT ![i] = IF ok THEN "ok" ELSE "failed"]
        /\ passed' = [passed EXCEPT ![i] = Handed(ReadFile(files[i], ok))]
        /\ doneOrder' = Append(doneOrder, i)
    /\ UNCHANGED <<index, disk, ixPc, files, built, embeddings, outcome, saved,
                   startIndex, startDisk, rebuilds>>
    /\ UNCHANGED notIndex

\* lines 64-66: collect; return when no chunk was extracted.
IndexRepoNoChunks ==
    /\ ixPc = "scan"
    /\ AllScanned
    /\ Collected = <<>>
    /\ built' = Collected
    /\ outcome' = "no_chunks"
    /\ ixPc' = "done"
    /\ UNCHANGED <<index, disk, files, parts, reads, passed, doneOrder, embeddings,
                   saved, startIndex, startDisk, rebuilds>>
    /\ UNCHANGED notIndex

\* lines 64-80 when self.model.embed returns Err: report and return.
IndexRepoEmbedFailed_Clears ==
    /\ ixPc = "scan"
    /\ AllScanned
    /\ Collected # <<>>
    /\ built' = Collected
    /\ outcome' = "embed_failed"
    /\ ixPc' = "done"
    /\ index' = <<>>
    /\ UNCHANGED <<disk, files, parts, reads, passed, doneOrder, embeddings,
                   saved, startIndex, startDisk, rebuilds>>
    /\ UNCHANGED notIndex

IndexRepoEmbedFailed ==
    /\ ixPc = "scan"
    /\ AllScanned
    /\ Collected # <<>>
    /\ built' = Collected
    /\ outcome' = "embed_failed"
    /\ ixPc' = "done"
    /\ UNCHANGED <<index, disk, files, parts, reads, passed, doneOrder, embeddings,
                   saved, startIndex, startDisk, rebuilds>>
    /\ UNCHANGED notIndex

\* lines 64-92 when self.model.embed returns Ok: pair the chunks with the
\* vectors, replace self.index, save().
IndexRepoUpdate ==
    /\ ixPc = "scan"
    /\ AllScanned
    /\ Collected # <<>>
    /\ built' = Collected
    /\ embeddings' = [i \in 1..Len(Collected) |-> EmbeddingOf(EmbedInput(Collected[i]))]
    /\ index' = Zip(built', embeddings')
    /\ \E w \in WriteResults :
        /\ disk' = AfterWrite(disk, index', w)
        /\ saved' = w
    /\ outcome' = "updated"
    /\ ixPc' = "done"
    /\ UNCHANGED <<files, parts, reads, passed, doneOrder, startIndex, startDisk,
                   rebuilds>>
    /\ UNCHANGED notIndex

\* index_repo returns: its locals are dropped.
IndexRepoReturn ==
    /\ ixPc = "done"
    /\ ixPc' = "idle"
    /\ files' = <<>>
    /\ parts' = <<>>
    /\ reads' = <<>>
    /\ passed' = <<>>
    /\ doneOrder' = <<>>
    /\ built' = <<>>
    /\ embeddings' = <<>>
    /\ outcome' = "none"
    /\ saved' = "none"
    /\ startIndex' = <<>>
    /\ startDisk' = Absent
    /\ UNCHANGED <<index, disk, rebuilds>>
    /\ UNCHANGED notIndex

----------------------------------------------------------------------------
(* The skeleton cache.                                                     *)

\* Largest number of get_skeleton calls.
MaxCalls == 3

\* The paths asked for and the contents their files can hold.
SkelPaths == {<<"a", ".", "r">>, <<"a", ".", "r", "s">>}

SkelContents == {<<"x">>, <<"s", "x">>, <<"f", "{", "x", "}">>}

\* The grammar generate_skeleton picks for an extension ("none": fallback).
SkeletonLanguage(ext) ==
    CASE ext = "rs" -> "rust"
      [] ext = "py" -> "python"
      [] ext \in {"js", "ts", "jsx", "tsx"} -> "javascript"
      [] ext = "java" -> "java"
      [] ext \in {"cpp", "cc", "hpp"} -> "cpp"
      [] ext \in {"c", "h"} -> "c"
      [] ext = "go" -> "go"
      [] OTHER -> "none"

\* The placeholder generate_skeleton passes for a grammar.
Placeholder(lang) ==
    CASE lang = "rust" -> <<" ... ">>
      [] lang = "python" -> <<" ...">>
      [] lang \in {"javascript", "go"} -> <<" { ... }">>
      [] OTHER -> <<" { /* ... */ }">>

\* The fallback keeps 20 lines of a file of more than 50 lines.
FallbackLimit == 50

FallbackKeep == 20

\* str::lines(): the lines of a text, without their line breaks.
RECURSIVE TextLines(_)
TextLines(t) ==
    IF t = <<>> THEN <<>>
    ELSE LET brk == {i \in 1..Len(t) : t[i] = NL}
         IN  IF brk = {} THEN <<t>>
             ELSE LET b == CHOOSE i \in brk : \A j \in brk : i <= j
                  IN  <<SubSeq(t, 1, b - 1)>> \o TextLines(SubSeq(t, b + 1, Len(t)))

\* join("\n")
RECURSIVE JoinLines(_)
JoinLines(ls) ==
    IF ls = <<>> THEN <<>>
    ELSE IF Len(ls) = 1 THEN ls[1]
    ELSE ls[1] \o <<NL>> \o JoinLines(Tail(ls))

\* The `_` arm of generate_skeleton.
Fallback(content) ==
    LET lines == TextLines(content)
    IN  IF Len(lines) > FallbackLimit
        THEN JoinLines(SubSeq(lines, 1, FallbackKeep))
                \o <<NL, "... (", Len(lines) - FallbackKeep, " lines hidden)">>
        ELSE content

\* The captures of the fold query on a content: the parser is taken to find
\* the body between a "{" and the first "}" after it.
BodyRanges(content) ==
    LET opens == {i \in 1..Len(content) : content[i] = "{"}
        closeOf(i) == {j \in (i + 1)..Len(content) : content[j] = "}"}
        body(i) == <<i - 1, CHOOSE j \in closeOf(i) : \A k \in closeOf(i) : j <= k>>
    IN  [k \in 1..Cardinality({i \in opens : closeOf(i) # {}}) |->
            body(Ascending({i \in opens : closeOf(i) # {}})[k])]

RECURSIVE FoldAll(_, _, _)
FoldAll(content, replacement, rs) ==
    IF rs = <<>> THEN [result |-> <<>>, last_pos |-> 0, applied |-> <<>>]
    ELSE FoldOne(content, replacement,
                 FoldAll(content, replacement, SubSeq(rs, 1, Len(rs) - 1)), rs[Len(rs)])

\* process_tree_sitter on the captures the query delivers.
ProcessTreeSitter(content, caps, replacement) ==
    FoldTail(content, FoldAll(content, replacement, SortByStart(caps)))

GenerateSkeleton(content, path) ==
    LET lang == SkeletonLanguage(Extension(path))
    IN  IF lang = "none" THEN Fallback(content)
        ELSE ProcessTreeSitter(content, BodyRanges(content), Placeholder(lang))

\* md5::compute(format!("{}{}", rel_path, content)): the digest is taken to
\* be injective, so the key is the string that is hashed.
CacheKey(path, content) == path \o content

\* fs::write(cache_file, &skeleton) on the cache.
Put(c, key, text) == [k \in DOMAIN c \cup {key} |-> IF k = key THEN text ELSE c[k]]

CacheAfterWrite(c, key, text, w) ==
    CASE w = "written" -> Put(c, key, text)
      [] w = "truncated" -> Put(c, key, <<>>)
      [] OTHER -> c

CacheIdle ==
    /\ cache = <<>>
    /\ returns = {}
    /\ calls = -1

\* AnalysisEngine::new in a repository whose cache directory is empty.
CacheInit ==
    /\ cache = <<>>
    /\ returns = {}
    /\ calls = 0

\* get_skeleton when the file cannot be read (lines 21-24).
GetSkeletonUnreadable ==
    /\ calls >= 0
    /\ calls < MaxCalls
    /\ calls' = calls + 1
    /\ \E path \in SkelPaths :
        returns' = returns \cup
            {[path |-> path, content |-> <<>>, how |-> "unreadable",
              text |-> <<"Error: File not found">>, stored |-> <<>>]}
    /\ UNCHANGED cache
    /\ UNCHANGED notCache

\* get_skeleton when the cache file exists (lines 26-33): return what
\* read_to_string gives, the empty string when it fails.
GetSkeletonHit ==
    /\ calls >= 0
    /\ calls < MaxCalls
    /\ calls' = calls + 1
    /\ \E path \in SkelPaths, content \in SkelContents, readOk \in BOOLEAN :
        LET key == CacheKey(path, content)
        IN  /\ key \in DOMAIN cache
            /\ returns' = returns \cup
                {[path |-> path, content |-> content, how |-> "hit",
                  text |-> IF readOk THEN cache[key] ELSE <<>>,
                  stored |-> cache[key]]}
    /\ UNCHANGED cache
    /\ UNCHANGED notCache

\* get_skeleton when the cache file does not exist (lines 26-37): generate,
\* write the cache file (a failure is ignored), return the skeleton.
GetSkeletonMiss ==
    /\ calls >= 0
    /\ calls < MaxCalls
    /\ calls' = calls + 1
    /\ \E path \in SkelPaths, content \in SkelContents, w \in WriteResults :
        LET key == CacheKey(path, content)
            skeleton == GenerateSkeleton(content, path)
        IN  /\ key \notin DOMAIN cache
            /\ cache' = CacheAfterWrite(cache, key, skeleton, w)
            /\ returns' = returns \cup
                {[path |-> path, content |-> content, how |-> "miss",
                  text |-> skeleton, stored |-> <<>>]}
    /\ UNCHANGED notCache

----------------------------------------------------------------------------
(* Search.                                                                 *)

\* Largest `limit` a search is called with.
MaxLimit == 3

\* Largest number of documents of an index searched directly.
MaxDocs == 3

\* The vectors (of dimension 2) an indexed document can have.
Vectors == {<<0, 0>>, <<1, 0>>, <<0, 1>>, <<1, 1>>, <<-1, 0>>}

\* The vectors the model returns for the query texts.
QueryVectors == {<<1, 0>>, <<1, 1>>, <<0, 0>>}

\* self.model.embed(vec![query], None): Ok with the vector, or Err.
EmbedResults ==
    {[ok |-> TRUE, vec |-> q] : q \in QueryVectors} \cup {[ok |-> FALSE, vec |-> <<>>]}

RECURSIVE Sum(_)
Sum(xs) == IF xs = <<>> THEN 0 ELSE xs[1] + Sum(Tail(xs))

\* a.iter().zip(b).map(|(x, y)| x * y).sum()
DotProduct(a, b) == Sum([i \in 1..Min2(Len(a), Len(b)) |-> a[i] * b[i]])

\* a.iter().map(|x| x * x).sum(): the square of the norm.
NormSquared(a) == Sum([i \in 1..Len(a) |-> a[i] * a[i]])

\* A score is the number num / sqrt(den2), kept exactly; NaN is what the
\* division 0.0 / 0.0 gives.
NaN == [num |-> 0, den2 |-> 0]

Zero == [num |-> 0, den2 |-> 1]

\* dot_product / (norm_a * norm_b)
Divide(dot, na2, nb2) == [num |-> dot, den2 |-> na2 * nb2]

CosineSimilarity_Unguarded(a, b) == Divide(DotProduct(a, b), NormSquared(a), NormSquared(b))

CosineSimilarity(a, b) ==
    IF NormSquared(a) = 0 \/ NormSquared(b) = 0
    THEN Zero
    ELSE Divide(DotProduct(a, b), NormSquared(a), NormSquared(b))

\* s > t on scores; no comparison with NaN is true.
Greater(s, t) ==
    /\ s.den2 # 0
    /\ t.den2 # 0
    /\ IF s.num >= 0 /\ t.num < 0 THEN TRUE
       ELSE IF s.num < 0 /\ t.num >= 0 THEN FALSE
       ELSE IF s.num >= 0
            THEN s.num * s.num * t.den2 > t.num * t.num * s.den2
            ELSE s.num * s.num * t.den2 < t.num * t.num * s.den2

\* scored_docs.sort_by(|a, b| b.0.partial_cmp(&a.0).unwrap_or(Equal)): a
\* stable sort; x goes before the first element its score is greater than.
RECURSIVE InsertByScore(_, _)
InsertByScore_Unstable(sorted, x) ==
    IF sorted = <<>> THEN <<x>>
    ELSE IF ~Greater(sorted[1].score, x.score) THEN <<x>> \o sorted
    ELSE <<sorted[1]>> \o InsertByScore(Tail(sorted), x)

InsertByScore(sorted, x) ==
    IF sorted = <<>> THEN <<x>>
    ELSE IF Greater(x.score, sorted[1].score) THEN <<x>> \o sorted
    ELSE <<sorted[1]>> \o InsertByScore(Tail(sorted), x)

RECURSIVE SortByScore(_)
SortByScore(ds) ==
    IF ds = <<>> THEN <<>>
    ELSE InsertByScore(SortByScore(SubSeq(ds, 1, Len(ds) - 1)), ds[Len(ds)])

\* iter().take(limit)
Take_OneLess(xs, n) == SubSeq(xs, 1, Min2(n, Len(xs)) - 1)

Take(xs, n) == SubSeq(xs, 1, Min2(n, Len(xs)))

\* "{:.2}" on a score: the number of hundredths nearest to it.
Hundredths(s) ==
    LET near(h) == (2 * h - 1) * (2 * h - 1) * s.den2 <= 40000 * s.num * s.num
        mag == CHOOSE h \in 0..100 : (h = 0 \/ near(h)) /\ (h = 100 \/ ~near(h + 1))
    IN  IF s.den2 = 0 THEN "NaN"
        ELSE IF s.num < 0 THEN 0 - mag ELSE mag

\* The format! of one match.
FormatMatch(sd) ==
    [score |-> Hundredths(sd.score), path |-> sd.doc.path,
     start_line |-> sd.doc.start_line, content |-> sd.doc.content]

\* The lines 110-115: score every document, sort.
ScoredDocs(idx, query_embedding) ==
    SortByScore([i \in 1..Len(idx) |->
        [score |-> CosineSimilarity(query_embedding, idx[i].embedding),
         doc |-> idx[i], pos |-> i]])

\* What search returns (query, limit and ranked are kept for reference, and
\* embedded tells whether the model was called). Lines 105-126: the index is
\* not empty.
SearchIndex(idx, embedded, limit) ==
    IF ~embedded.ok
    THEN [kind |-> "embed_failed", text |-> <<"Failed to embed query: ">>,
          embedded |-> TRUE, query |-> <<>>, limit |-> limit, ranked |-> <<>>]
    ELSE LET ranked == Take(ScoredDocs(idx, embedded.vec), limit)
             results == [i \in 1..Len(ranked) |-> FormatMatch(ranked[i])]
         IN  IF results = <<>>
             THEN [kind |-> "no_match", text |-> <<"No relevant code found.">>,
                   embedded |-> TRUE, query |-> embedded.vec, limit |-> limit,
                   ranked |-> ranked]
             ELSE [kind |-> "results", text |-> results,
                   embedded |-> TRUE, query |-> embedded.vec, limit |-> limit,
                   ranked |-> ranked]

SearchResult_NoEmptyCheck(idx, embedded, limit) == SearchIndex(idx, embedded, limit)

\* Lines 100-127.
SearchResult(idx, embedded, limit) ==
    IF idx = <<>>
    THEN [kind |-> "index_empty", text |-> <<"Index is empty. Run initialization.">>,
          embedded |-> FALSE, query |-> <<>>, limit |-> limit, ranked |-> <<>>]
    ELSE SearchIndex(idx, embedded, limit)

\* The documents of an index searched directly: document i is named after
\* its position and has any of the vectors.
DocPath(i) == <<"d", i>>

SearchIndexes ==
    {[i \in 1..Len(vs) |->
        [path |-> DocPath(i), content |-> <<0, 1>>, start_line |-> i,
         embedding |-> vs[i]]] : vs \in SeqsUpTo(Vectors, MaxDocs)}

SearchIdle == answer = NoAnswer

\* A SemanticIndexer whose index holds any documents.
SearchInit ==
    /\ index \in SearchIndexes
    /\ disk = Json(index)
    /\ ixPc = "idle"
    /\ files = <<>>
    /\ parts = <<>>
    /\ reads = <<>>
    /\ passed = <<>>
    /\ doneOrder = <<>>
    /\ built = <<>>
    /\ embeddings = <<>>
    /\ outcome = "none"
    /\ saved = "none"
    /\ startIndex = <<>>
    /\ startDisk = Absent
    /\ rebuilds = 0
    /\ answer = NoAnswer

\* search(query, limit), between rebuilds: the model embeds the query, or fails.
Search ==
    /\ ixPc = "idle"
    /\ \E embedded \in EmbedResults, limit \in 0..MaxLimit :
        answer' = SearchResult(index, embedded, limit)
    /\ UNCHANGED notSearch

----------------------------------------------------------------------------
(* Concurrent get_skeleton calls for one (path, content), with no lock.    *)

\* Largest number of concurrent calls.
MaxCallers == 3

\* The file every call asks for, and its content.
RacePath == <<"a", ".", "r", "s">>

RaceContent == <<"f", "{", "x", "}">>

RaceKey == CacheKey(RacePath, RaceContent)

RaceIdle == callers = <<>>

\* Any number of calls have read the file and computed cache_file; the
\* cache directory is empty.
RaceInit ==
    /\ callers \in {[i \in 1..n |-> [pc |-> "exists", text |-> <<>>]] : n \in 1..MaxCallers}
    /\ cache = <<>>
    /\ returns = {}
    /\ calls = 0

\* if cache_file.exists()
RaceExists ==
    /\ \E i \in DOMAIN callers :
        /\ callers[i].pc = "exists"
        /\ callers' = [callers EXCEPT ![i].pc =
                          IF RaceKey \in DOMAIN cache THEN "read" ELSE "generate"]
    /\ UNCHANGED cacheVars
    /\ UNCHANGED notRace

\* return fs::read_to_string(cache_file).unwrap_or_default()
RaceRead ==
    /\ \E i \in DOMAIN callers :
        /\ callers[i].pc = "read"
        /\ callers' = [callers EXCEPT ![i] = [pc |-> "done", text |-> cache[RaceKey]]]
    /\ UNCHANGED cacheVars
    /\ UNCHANGED notRace

\* generate_skeleton, then the first half of fs::write: the cache file is
\* created, or truncated when it is there.
RaceCreate ==
    /\ \E i \in DOMAIN callers :
        /\ callers[i].pc = "generate"
        /\ callers' = [callers EXCEPT ![i] =
                          [pc |-> "write", text |-> GenerateSkeleton(RaceContent, RacePath)]]
        /\ cache' = Put(cache, RaceKey, <<>>)
    /\ UNCHANGED <<returns, calls>>
    /\ UNCHANGED notRace

\* The second half of fs::write: the skeleton is written; return it.
RaceWrite ==
    /\ \E i \in DOMAIN callers :
        /\ callers[i].pc = "write"
        /\ callers' = [callers EXCEPT ![i].pc = "done"]
        /\ cache' = Put(cache, RaceKey, callers[i].text)
    /\ UNCHANGED <<returns, calls>>
    /\ UNCHANGED notRace

----------------------------------------------------------------------------
(* The extension tables of the two consumers.                              *)

\* The extensions looked up: those either table names, and some it does not.
Extensions ==
    {<<"r", "s">>, <<"p", "y">>, <<"j", "s">>, <<"t", "s">>, <<"j", "s", "x">>,
     <<"t", "s", "x">>, <<"j", "a", "v", "a">>, <<"c", "p", "p">>, <<"c", "c">>,
     <<"h", "p", "p">>, <<"c">>, <<"h">>, <<"g", "o">>, <<"t", "x", "t">>,
     <<"m", "d">>, <<"R", "S">>}

\* The file names before the extension.
Stems == {<<"a">>, <<"a", ".", "b">>, <<".", "a">>}

LookupPaths == {st \o <<".">> \o e : st \in Stems, e \in Extensions} \cup Stems

Unasked == "unasked"

RegistryIdle == lookup = [path |-> <<>>, skeleton |-> Unasked, chunker |-> Unasked]

RegistryInit ==
    lookup \in {[path |-> pa, skeleton |-> Unasked, chunker |-> Unasked] : pa \in LookupPaths}

\* generate_skeleton picks the grammar for the path.
SkeletonLookup ==
    /\ lookup.skeleton = Unasked
    /\ lookup' = [lookup EXCEPT !.skeleton = SkeletonLanguage(Extension(lookup.path))]
    /\ UNCHANGED notRegistry

\* Chunker::chunk picks the grammar for the path.
ChunkerLookup ==
    /\ lookup.chunker = Unasked
    /\ lookup' = [lookup EXCEPT !.chunker = ChunkerLanguage(Extension(lookup.path))]
    /\ UNCHANGED notRegistry

----------------------------------------------------------------------------
(* Specifications.                                                         *)

InitFold == FoldInit /\ ChunkIdle /\ IndexIdle /\ CacheIdle /\ SearchIdle /\ RaceIdle /\ RegistryIdle

NextFold == FoldSort \/ FoldRange \/ FoldFinish

SpecFold == InitFold /\ [][NextFold]_vars

InitChunk == ChunkInit /\ FoldIdle /\ IndexIdle /\ CacheIdle /\ SearchIdle /\ RaceIdle /\ RegistryIdle

NextChunk == ChunkCapture \/ ChunkReturn

SpecChunk == InitChunk /\ [][NextChunk]_vars

InitIndex == IndexInit /\ FoldIdle /\ ChunkIdle /\ CacheIdle /\ SearchIdle /\ RaceIdle /\ RegistryIdle

NextIndex ==
    \/ Restart
    \/ IndexRepoStart
    \/ ScanFile
    \/ IndexRepoNoChunks
    \/ IndexRepoEmbedFailed
    \/ IndexRepoUpdate
    \/ IndexRepoReturn
    \/ Search

SpecIndex == InitIndex /\ [][NextIndex]_vars

InitCache == CacheInit /\ FoldIdle /\ ChunkIdle /\ IndexIdle /\ SearchIdle /\ RaceIdle /\ RegistryIdle

NextCache == GetSkeletonUnreadable \/ GetSkeletonHit \/ GetSkeletonMiss

SpecCache == InitCache /\ [][NextCache]_vars

InitSearch == SearchInit /\ FoldIdle /\ ChunkIdle /\ CacheIdle /\ RaceIdle /\ RegistryIdle

NextSearch == Search

SpecSearch == InitSearch /\ [][NextSearch]_vars

InitRace == RaceInit /\ FoldIdle /\ ChunkIdle /\ IndexIdle /\ SearchIdle /\ RegistryIdle

NextRace == RaceExists \/ RaceRead \/ RaceCreate \/ RaceWrite

SpecRace == InitRace /\ [][NextRace]_vars

InitRegistry ==
    RegistryInit /\ FoldIdle /\ ChunkIdle /\ IndexIdle /\ CacheIdle /\ SearchIdle /\ RaceIdle

NextRegistry == SkeletonLookup \/ ChunkerLookup

SpecRegistry == InitRegistry /\ [][NextRegistry]_vars

----------------------------------------------------------------------------
(* C1: in the fold pass exactly the outermost range of every cluster of    *)
(* nested captures is replaced by the placeholder and every range nested   *)
(* inside it is skipped, for every order in which the captures arrive,     *)
(* including an inner and an outer range with the same start offset.       *)

Outermost ==
    {r \in Range(captures) :
        ~\E q \in Range(captures) : q # r /\ Contains(q, r)}

C1_OutermostFolded ==
    foldPc = "done" => Range(applied) = Outermost

----------------------------------------------------------------------------
(* C3: start_line and end_line of every chunk are the 1-based numbers of   *)
(* its first and last line: start_line = 1 + the number of line breaks     *)
(* before the start offset, end_line = 1 + the number of line breaks       *)
(* before the end offset, for a declaration at the start of a line and for *)
(* an indented one.                                                        *)

NewlinesBefore(f, offset) == CountChar(Prefix(ContentRuns(f), offset), NL)

C3_OneBasedLines ==
    \A i \in 1..Len(chunks) :
        /\ chunks[i].start_line = 1 + NewlinesBefore(file, chunks[i].content[1])
        /\ chunks[i].end_line = 1 + NewlinesBefore(file, chunks[i].content[2])

----------------------------------------------------------------------------
(* C4: a declaration (with the documentation attached to it) that spans    *)
(* exactly 3 source lines is excluded, one that spans exactly 4 source     *)
(* lines is included, in whatever column it starts; every chunk that is    *)
(* emitted spans more than 3 lines.                                        *)

SpanLines(f, c) ==
    1 + NewlinesBefore(f, c.content[2]) - NewlinesBefore(f, c.content[1])

C4_ThreeOutFourIn ==
    chunkPc = "done" =>
        /\ \A i \in 1..Len(visited) :
              /\ SpanLines(file, visited[i].chunk) = 3 => visited[i].chunk \notin Range(chunks)
              /\ SpanLines(file, visited[i].chunk) = 4 => visited[i].chunk \in Range(chunks)
        /\ \A i \in 1..Len(chunks) : SpanLines(file, chunks[i]) > 3

----------------------------------------------------------------------------
(* C5: the start of a chunk is extended backward over the preceding        *)
(* siblings one at a time; a sibling is attached if and only if it is a    *)
(* comment or string node and the gap between its end and the start        *)
(* accumulated so far is below 50 bytes; the walk stops at the first       *)
(* sibling that fails either condition.                                    *)

RECURSIVE ClaimedStart(_, _, _)
ClaimedStart(f, p, start_byte) ==
    IF p = 0 THEN start_byte
    ELSE IF IsDocKind(f[p].kind) /\ start_byte - NodeEnd(f, p) < 50
    THEN ClaimedStart(f, p - 1, NodeStart(f, p))
    ELSE start_byte

C5_AttachBelowFifty ==
    \A i \in 1..Len(visited) :
        visited[i].chunk.content[1] =
            ClaimedStart(file, visited[i].node - 1, NodeStart(file, visited[i].node))

----------------------------------------------------------------------------
(* C6: the chunks of a file are returned in ascending order of their start *)
(* offset, in whatever order the query cursor delivers the captures.       *)

C6_SourceOrder ==
    chunkPc = "done" =>
        \A i, j \in 1..Len(chunks) :
            i < j => chunks[i].content[1] <= chunks[j].content[1]

----------------------------------------------------------------------------
(* C7: an index_repo call that does not succeed (no file listed, no chunk  *)
(* extracted, or the embedding backend failed) leaves the in-memory index  *)
(* and the persisted index exactly as they were before the call.           *)

Unsuccessful == {"no_files", "no_chunks", "embed_failed"}

C7_FailedRebuildKeepsIndex ==
    outcome \in Unsuccessful => index = startIndex /\ disk = startDisk

\* An embedding failure that follows a rebuild which had filled the index.
C7_Witness ==
    /\ outcome = "embed_failed"
    /\ index # <<>>
    /\ disk.state = "json"
    /\ index = startIndex
    /\ disk = startDisk

----------------------------------------------------------------------------
(* C8: after an index_repo call whose embedding call succeeds, the         *)
(* in-memory index and the persisted index are both exactly                *)
(* zip(chunks, vectors): one record per chunk, in chunk order, record i    *)
(* holding the path, content and start line of chunk i and the vector      *)
(* returned for embedding input i; no record of an earlier rebuild remains.*)

IndexPairsChunksWithVectors ==
    /\ Len(index) = Len(built)
    /\ Len(embeddings) = Len(built)
    /\ \A i \in 1..Len(built) :
          index[i] = [path |-> built[i].path, content |-> built[i].content,
                      start_line |-> built[i].start_line,
                      embedding |-> embeddings[i]]

----------------------------------------------------------------------------
(* C9: during a rebuild the paths that are skipped are exactly the paths   *)
(* whose read fails: every listed path whose read succeeds has its content *)
(* passed to the chunk extractor and its chunks included in the rebuilt    *)
(* index, whatever text the file contains.                                 *)

C9_SkipsExactlyFailedReads ==
    /\ \A i \in 1..Len(files) :
          parts[i] # Pending => (passed[i] <=> reads[i] = "ok")
    /\ outcome = "updated" =>
          \A i \in 1..Len(files) :
              reads[i] = "ok" =>
                  \A c \in Range(ChunkerChunk(Worktree(files[i]), files[i])) :
                      \E k \in 1..Len(index) :
                          /\ index[k].path = c.path
                          /\ index[k].content = c.content

----------------------------------------------------------------------------
(* C10: the chunk list a rebuild assembles, and so the index it builds, is *)
(* the same for every worker count and every interleaving of the per-file  *)
(* workers: the concatenation of each file's chunks in file-list order.    *)

InFileListOrder ==
    Flatten([i \in 1..Len(files) |-> FileChunks(files[i], reads[i] = "ok")])

C10_FanInKeepsListOrder ==
    outcome \in {"no_chunks", "embed_failed", "updated"} =>
        LET expected == InFileListOrder
        IN  /\ built = expected
            /\ outcome = "updated" =>
                  [i \in 1..Len(index) |->
                        [path |-> index[i].path, content |-> index[i].content]]
                  = [i \in 1..Len(expected) |->
                        [path |-> expected[i].path, content |-> expected[i].content]]

\* A rebuild of two files with chunks whose second file was processed first.
C10_Witness ==
    /\ outcome = "updated"
    /\ Len(doneOrder) = 2
    /\ doneOrder[1] > doneOrder[2]
    /\ parts[1] # <<>>
    /\ parts[2] # <<>>

----------------------------------------------------------------------------
(* C2: get_skeleton calls made with the same (path, content) return the    *)
(* same text on every call, whether the call is a miss that generates the  *)
(* skeleton or a hit that reads the stored entry; a hit returns the stored *)
(* text without regenerating it.                                           *)

C2_SameTextEveryCall ==
    /\ \A r, q \in returns :
          r.how # "unreadable" /\ q.how # "unreadable"
              /\ r.path = q.path /\ r.content = q.content
          => r.text = q.text
    /\ \A r \in returns : r.how = "hit" => r.text = r.stored

----------------------------------------------------------------------------
(* C11: search on an index with zero entries returns the index-is-empty    *)
(* signal for every query and every limit, without calling the embedding   *)
(* backend; in every state a sequence of rebuilds reaches, search returns  *)
(* that signal if and only if the index has zero entries.                  *)

C11_EmptySignalIffEmptyIndex ==
    answer # NoAnswer =>
        /\ answer.kind = "index_empty" <=> index = <<>>
        /\ index = <<>> =>
              /\ ~answer.embedded
              /\ answer.text = <<"Index is empty. Run initialization.">>
              /\ answer.kind \notin {"results", "no_match", "embed_failed"}

\* A search on the empty index that a rebuild and a reload of an
\* unreadable index file left behind.
C11_Witness ==
    /\ rebuilds >= 1
    /\ disk = Corrupt
    /\ index = <<>>
    /\ answer.kind = "index_empty"

----------------------------------------------------------------------------
(* C12: search(query, k) on a non-empty index of n entries returns exactly *)
(* min(k, n) results, ordered by score descending, entries of equal score  *)
(* in their index order; for the vectors a=[1,0], b=[1,0], c=[0,1] and the *)
(* query [1,0] the order is a, b, c.                                       *)

ScoreOf(pos) == CosineSimilarity(answer.query, index[pos].embedding)

\* Document p ranks before document q.
RanksBefore(p, q) ==
    \/ Greater(ScoreOf(p), ScoreOf(q))
    \/ ~Greater(ScoreOf(q), ScoreOf(p)) /\ p < q

C12_TopKStableDescending ==
    answer # NoAnswer /\ answer.kind \in {"results", "no_match"} =>
        LET ranked == answer.ranked
            taken == {ranked[i].pos : i \in 1..Len(ranked)}
        IN  /\ Len(ranked) = Min2(answer.limit, Len(index))
            /\ answer.kind = "results" => Len(answer.text) = Len(ranked)
            /\ \A i \in 1..Len(ranked) :
                  /\ ranked[i].score = ScoreOf(ranked[i].pos)
                  /\ answer.text[i].path = index[ranked[i].pos].path
            /\ \A i, j \in 1..Len(ranked) :
                  i < j => RanksBefore(ranked[i].pos, ranked[j].pos)
            /\ \A p \in taken, q \in (1..Len(index)) \ taken : RanksBefore(p, q)
            /\ (/\ Len(index) = 3
                /\ index[1].embedding = <<1, 0>>
                /\ index[2].embedding = <<1, 0>>
                /\ index[3].embedding = <<0, 1>>
                /\ answer.query = <<1, 0>>
                /\ answer.limit = 3)
               => [i \in 1..Len(ranked) |-> ranked[i].pos] = <<1, 2, 3>>

\* The search of the example: a=[1,0], b=[1,0], c=[0,1], query [1,0], k = 3.
C12_Witness ==
    /\ answer.kind = "results"
    /\ Len(index) = 3
    /\ index[1].embedding = <<1, 0>>
    /\ index[2].embedding = <<1, 0>>
    /\ index[3].embedding = <<0, 1>>
    /\ answer.query = <<1, 0>>
    /\ answer.limit = 3
    /\ Len(answer.text) = 3

----------------------------------------------------------------------------
(* C13: cosine_similarity returns exactly 0 whenever either vector has     *)
(* norm zero, so no division by zero is performed and no score is NaN.     *)

C13_ZeroNormScoresZero ==
    answer # NoAnswer =>
        \A i \in 1..Len(answer.ranked) :
            LET r == answer.ranked[i]
            IN  /\ r.score # NaN
                /\ r.score.den2 # 0
                /\ (NormSquared(answer.query) = 0
                        \/ NormSquared(index[r.pos].embedding) = 0)
                   => /\ r.score = Zero
                      /\ answer.text[i].score = 0

\* A ranked result for an indexed all-zero vector and a query that is not zero.
C13_Witness ==
    /\ answer.kind = "results"
    /\ NormSquared(answer.query) # 0
    /\ \E i \in 1..Len(answer.ranked) :
          /\ index[answer.ranked[i].pos].embedding = <<0, 0>>
          /\ answer.ranked[i].score = Zero

----------------------------------------------------------------------------
(* C17: for every call search(queryText, k) on a non-empty index whose     *)
(* query embedding succeeds, at least one formatted result is returned:    *)
(* "No relevant code found." is unreachable for every value of k.          *)

C17_NoMatchUnreachable ==
    (answer # NoAnswer /\ index # <<>> /\ answer.kind # "embed_failed") =>
        /\ answer.kind = "results"
        /\ Len(answer.text) >= 1

\* The same for every k of at least 1; with k = 0 the search of a non-empty
\* index returns "No relevant code found.".
C17_NoMatchOnlyForZeroLimit ==
    (answer # NoAnswer /\ index # <<>> /\ answer.kind # "embed_failed") =>
        /\ answer.limit >= 1 => answer.kind = "results" /\ Len(answer.text) >= 1
        /\ answer.limit = 0 => answer.kind = "no_match"

\* A search with k = 1 of an index of two documents.
C17_Witness ==
    /\ Len(index) = 2
    /\ answer.kind = "results"
    /\ answer.limit = 1
    /\ Len(answer.text) = 1

----------------------------------------------------------------------------
(* C14: within one fold pass the ranges actually replaced are sorted by    *)
(* start offset and pairwise non-overlapping, the cursor last_pos never    *)
(* decreases and never exceeds the content length, and every untouched     *)
(* slice content[last_pos..start] that is appended has a length >= 0.      *)

AppliedSortedDisjoint ==
    /\ \A i, j \in 1..Len(applied) :
          i < j => /\ applied[i][1] <= applied[j][1]
                   /\ applied[i][2] <= applied[j][1]
    /\ last_pos >= 0
    /\ last_pos <= Len(FoldContent)

CursorAdvances ==
    /\ last_pos' >= last_pos
    /\ applied' # applied =>
          /\ ranges[foldI][1] - last_pos >= 0
          /\ Len(result') = Len(result) + (ranges[foldI][1] - last_pos) + Len(Replacement)

C14_AppliedSortedCursorMonotone == []AppliedSortedDisjoint /\ [][CursorAdvances]_vars

\* A finished pass that replaced two ranges and skipped a nested one.
C14_Witness ==
    /\ foldPc = "done"
    /\ Len(applied) = 2
    /\ Len(captures) = 3

----------------------------------------------------------------------------
(* C15: two get_skeleton requests whose (path, content) pairs differ never *)
(* resolve to the same cache key, so a cache hit for (path, content)       *)
(* returns the text generation produces for that path and content, never a *)
(* skeleton stored for another pair.                                       *)

\* The calls that got as far as the cache.
Keyed == {r \in returns : r.how # "unreadable"}

C15_DistinctPairsDistinctKeys ==
    /\ \A r, q \in Keyed :
          (r.path # q.path \/ r.content # q.content)
              => CacheKey(r.path, r.content) # CacheKey(q.path, q.content)
    /\ \A r \in Keyed :
          (r.how = "hit" /\ r.stored # <<>> /\ r.text = r.stored)
              => r.text = GenerateSkeleton(r.content, r.path)

----------------------------------------------------------------------------
(* C16: when several get_skeleton calls for the same (path, content) run   *)
(* concurrently with no lock, under every interleaving of their existence  *)
(* check, cache read and cache write steps, every call returns the text a  *)
(* call run alone returns, and the cache entry finally holds that text.    *)

C16_ConcurrentCallsAgree ==
    /\ \A i \in DOMAIN callers :
          callers[i].pc = "done"
              => callers[i].text = GenerateSkeleton(RaceContent, RacePath)
    /\ (callers # <<>> /\ \A i \in DOMAIN callers : callers[i].pc = "done")
          => /\ RaceKey \in DOMAIN cache
             /\ cache[RaceKey] = GenerateSkeleton(RaceContent, RacePath)

----------------------------------------------------------------------------
(* C18: the grammar registry is one lookup per extension shared by both    *)
(* consumers: for every extension the skeleton generator treats it as      *)
(* registered if and only if the chunk extractor does, and when it is      *)
(* registered both use the same parser grammar for it.                     *)

C18_OneRegistry ==
    (lookup.skeleton # Unasked /\ lookup.chunker # Unasked) =>
        /\ lookup.skeleton = "none" <=> lookup.chunker = "none"
        /\ lookup.skeleton = lookup.chunker

====
